---- MODULE Spec2Model ----
(***************************************************************************)
(* A model of jquery.parallax.js: one Plugin instance attached to one      *)
(* container element, the window it listens to (deviceorientation          *)
(* handlers, pending animation-frame requests, pending timeouts, viewport  *)
(* size, pointer position) and the positioning commands issued to the      *)
(* layers; the $.fn.parallax entry point that constructs the instance; and *)
(* the other instances of the page, where it has any.                      *)
(*                                                                         *)
(* Numbers.  Rotation angles, thresholds and depths are whole numbers.     *)
(* Scalars, limits, offsets and positioning commands are counted in        *)
(* halves, so that the default scalar 0.5 is the integer 1 and the offset  *)
(* 2.5 is the integer 5.  Products and comparisons are then exact.         *)
(***************************************************************************)
EXTENDS Integers, Sequences, FiniteSets, TLC

VARIABLES
  plugin,    \* the fields of the Plugin instance (this.*)
  window,    \* the window: viewport, attached handlers, pending frames, timers
  commands,  \* the setPosition calls issued by the most recent frame tick
  running,   \* TRUE iff the last of the enable()/disable() calls was enable()
  calls,     \* the number of setter calls (invert, scalar, limit) made so far
  last,      \* the step that led to the current state: a frame tick ("frame"),
             \* a deviceorientation event ("sample"), a $.fn.parallax call
             \* ("call") or any other ("other")
  container, \* the container element: its attributes and layers, whether its
             \* data store holds an instance, the number of instances
             \* constructed for it, the options the instance was given, and
             \* the arguments of the latest $.fn.parallax call
  peer       \* the worlds of the other Plugin instances of the page (a set,
             \* empty where the page has one instance)

vars == <<plugin, window, commands, running, calls, last, container, peer>>

-----------------------------------------------------------------------------
(* Bounds of the model.                                                    *)

\* enable() is not called while this many handlers or frame requests exist
MaxPending == 2

\* the client calls the setters invert, scalar and limit at most this often
MaxSetterCalls == 1

-----------------------------------------------------------------------------
(* JavaScript values.  A value that may be of several JavaScript types is  *)
(* a record [t, n]: its type tag and its number (0 where it has none).     *)

Undefined == [t |-> "undefined", n |-> 0]
Null      == [t |-> "null", n |-> 0]
NaN       == [t |-> "NaN", n |-> 0]
Num(i)    == [t |-> "number", n |-> i]
Bool(b)   == [t |-> "boolean", n |-> IF b THEN 1 ELSE 0]

\* ToBoolean: undefined, null, NaN, false and 0 are falsy
Truthy(v) == v.t \in {"number", "boolean"} /\ v.n # 0

\* a || b
Or(a, b) == IF Truthy(a) THEN a ELSE b

\* parseFloat(v): a number is itself, every other value of the model is NaN
parseFloat(v) == IF v.t = "number" THEN v ELSE NaN

isNaN(v) == v.t \in {"NaN", "undefined"}

Abs(i) == IF i < 0 THEN -i ELSE i
Max(a, b) == IF a >= b THEN a ELSE b
Min(a, b) == IF a <= b THEN a ELSE b

\* $.extend(target, source): the source's keys win, undefined values are skipped
Extend(target, source) ==
  [k \in DOMAIN target \cup {j \in DOMAIN source : source[j] # Undefined} |->
     IF k \in DOMAIN source /\ source[k] # Undefined THEN source[k] ELSE target[k]]

-----------------------------------------------------------------------------
(* Settings.  transition is cosmetic and is left out.                      *)

DEFAULTS ==
  [ calibrationThreshold |-> Num(100),
    calibrationDelay     |-> Num(500),
    invertX              |-> Bool(TRUE),
    invertY              |-> Bool(TRUE),
    limitX               |-> Bool(FALSE),
    limitY               |-> Bool(FALSE),
    scalarX              |-> Num(1),
    scalarY              |-> Num(1) ]

\* the value of a data-* attribute of the container, undefined when absent
Attr(element, key) ==
  IF key \in DOMAIN element.data THEN element.data[key] ELSE Undefined

\* Data Extraction, with the null values deleted
DataExtraction(element) ==
  LET data ==
        [ invertX |-> Or(Attr(element, "invert-x"), Null),
          invertY |-> Or(Attr(element, "invert-y"), Null),
          limitX  |-> Or(parseFloat(Attr(element, "limit-x")), Null),
          limitY  |-> Or(parseFloat(Attr(element, "limit-y")), Null),
          scalarX |-> Or(parseFloat(Attr(element, "scalar-x")), Null),
          scalarY |-> Or(parseFloat(Attr(element, "scalar-y")), Null) ]
  IN  [k \in {j \in DOMAIN data : data[j] # Null} |-> data[k]]

\* Compose Settings Object: $.extend(this, DEFAULTS, options, data)
Settings(element, options) ==
  Extend(Extend(DEFAULTS, options), DataExtraction(element))

-----------------------------------------------------------------------------
(* The browser's handles: setTimeout and requestAnimationFrame return an   *)
(* id that no pending request holds.                                       *)

FreshId(used) ==
  CHOOSE i \in 0..Cardinality(used) :
    i \notin used /\ \A j \in 0..(i - 1) : j \in used

\* clearTimeout(handle): null, or the id of a timer that has fired, clears nothing
clearTimeout(w, handle) ==
  [w EXCEPT !.timers = {t \in @ : ~(handle.t = "number" /\ t.id = handle.n)}]

\* cancelAnimationFrame(handle)
cancelAnimationFrame(w, handle) ==
  [w EXCEPT !.frames = {f \in @ : ~(handle.t = "number" /\ f = handle.n)}]

-----------------------------------------------------------------------------
(* The methods of Plugin.  A method that touches the window or the layers  *)
(* maps a world s = [plugin, window, commands] to the world it leaves.     *)

\* Plugin.prototype.portrait, read until the instance assigns its own
PrototypePortrait == TRUE

\* a calibrate that arms a timer without clearing the pending one, which C9
\* must reject
calibrate_NoClear(s, delay) ==
  LET id == FreshId({t.id : t \in s.window.timers})
  IN  [s EXCEPT !.window.timers = @ \cup {[id |-> id, delay |-> delay]},
                !.plugin.calibrationTimer = Num(id)]

calibrate(s, delay) ==
  LET cleared == clearTimeout(s.window, s.plugin.calibrationTimer)
      id      == FreshId({t.id : t \in cleared.timers})
  IN  [s EXCEPT !.window = [cleared EXCEPT !.timers = @ \cup {[id |-> id, delay |-> delay]}],
                !.plugin.calibrationTimer = Num(id)]

enable(s) ==
  LET id == FreshId(s.window.frames)
  IN  [s EXCEPT !.window.handlers = @ + 1,
                !.window.frames = @ \cup {id},
                !.plugin.raf = Num(id)]

\* a disable that clears the calibration timer as well, which C19 must reject
disable_ClearsTimer(s) ==
  [s EXCEPT !.window = clearTimeout(cancelAnimationFrame([@ EXCEPT !.handlers = 0],
                                                         s.plugin.raf),
                                    s.plugin.calibrationTimer)]

\* off('deviceorientation', this.onDeviceOrientation) removes every handler
\* that carries the guid of onDeviceOrientation, which $.proxy gives to each
\* of the proxies enable() has attached
disable(s) ==
  [s EXCEPT !.window = cancelAnimationFrame([@ EXCEPT !.handlers = 0], s.plugin.raf)]

invert(p, x, y) ==
  [p EXCEPT !.invertX = IF x = Undefined THEN @ ELSE x,
            !.invertY = IF y = Undefined THEN @ ELSE y]

scalar(p, x, y) ==
  [p EXCEPT !.scalarX = IF x = Undefined THEN @ ELSE x,
            !.scalarY = IF y = Undefined THEN @ ELSE y]

\* a limit that stores an omitted argument as it stores a given one, which
\* C13 must reject
limit_StoresOmitted(p, x, y) == [p EXCEPT !.limitX = x, !.limitY = y]

limit(p, x, y) ==
  [p EXCEPT !.limitX = IF x = Undefined THEN @ ELSE x,
            !.limitY = IF y = Undefined THEN @ ELSE y]

\* a clamp that forgets the lower bound, which C2 must reject
clamp_NoLowerBound(value, min, max) == Min(value, max)

clamp(value, min, max) == Min(Max(value, min), max)

\* the command a layer receives: the percentages handed to the positioning
\* strategy, whichever of the three techniques it writes them with
setPosition(element, x, y) == [element |-> element, x |-> x, y |-> y]

\* the dx, dy of onAnimationFrame
DeltaX(p) == p.rx - p.cx
DeltaY(p) == p.ry - p.cy

\* a test of the x deviation alone, which C8 must reject
ExceedsThreshold_OnlyX(p) == Abs(DeltaX(p)) > p.calibrationThreshold.n

ExceedsThreshold(p) ==
  \/ Abs(DeltaX(p)) > p.calibrationThreshold.n
  \/ Abs(DeltaY(p)) > p.calibrationThreshold.n

\* the offsets without the Portrait remap, which C1 must reject
RawOffset_NoRemap(p) ==
  [ox |-> DeltaX(p) * p.scalarX.n, oy |-> DeltaY(p) * p.scalarY.n]

\* the axis remap of onAnimationFrame
RawOffset(p) ==
  IF p.portrait
    THEN [ox |-> DeltaY(p) * p.scalarX.n, oy |-> DeltaX(p) * p.scalarY.n]
    ELSE [ox |-> DeltaX(p) * p.scalarX.n, oy |-> DeltaY(p) * p.scalarY.n]

\* if (!isNaN(parseFloat(limit))) offset = clamp(offset, -limit, limit)
Limited(offset, lim) ==
  IF ~isNaN(parseFloat(lim)) THEN clamp(offset, -lim.n, lim.n) ELSE offset

\* a loop that positions only the layers that move, which C10 must reject
LayerCommands_SkipsStatic(p) ==
  LET Moves(c) == p.depths[c.element] # 0
  IN  SelectSeq([index \in 1..Len(p.layers) |->
                   setPosition(index, p.ox * p.depths[index], p.oy * p.depths[index])],
                Moves)

\* a loop that reads invertX for both axes, which C11 must reject
LayerCommands_OneInvertFlag(p) ==
  [index \in 1..Len(p.layers) |->
     LET depth == p.depths[index]
         sign  == IF Truthy(p.invertX) THEN -1 ELSE 1
     IN  setPosition(index, p.ox * depth * sign, p.oy * depth * sign)]

\* the $layers.each of onAnimationFrame
LayerCommands(p) ==
  [index \in 1..Len(p.layers) |->
     LET depth   == p.depths[index]
         xOffset == p.ox * depth * (IF Truthy(p.invertX) THEN -1 ELSE 1)
         yOffset == p.oy * depth * (IF Truthy(p.invertY) THEN -1 ELSE 1)
     IN  setPosition(index, xOffset, yOffset)]

\* the callback id has fired: it is no longer pending when the method runs
onAnimationFrame(s, id) ==
  LET s0  == [s EXCEPT !.window.frames = @ \ {id}]
      s1  == IF ExceedsThreshold(s0.plugin) THEN calibrate(s0, 0) ELSE s0
      raw == RawOffset(s1.plugin)
      p2  == [s1.plugin EXCEPT !.ox = Limited(raw.ox, s1.plugin.limitX),
                               !.oy = Limited(raw.oy, s1.plugin.limitY)]
      nid == FreshId(s1.window.frames)
  IN  [ plugin   |-> [p2 EXCEPT !.raf = Num(nid)],
        window   |-> [s1.window EXCEPT !.frames = @ \cup {nid}],
        commands |-> LayerCommands(p2) ]

\* an orientation test that takes a square viewport for Portrait, which C7
\* must reject
Portrait_SquareIsPortrait(w) == ~(w.innerWidth > w.innerHeight)

\* window.innerHeight > window.innerWidth
Portrait(w) == w.innerHeight > w.innerWidth

\* a detection that stores the new mode and does not recalibrate, which C6
\* must reject
DetectOrientationChange_NoRecalibrate(p, w) ==
  [p EXCEPT !.portrait = Portrait(w)]

\* Detect Orientation Change
DetectOrientationChange(p, w) ==
  IF p.portrait # Portrait(w)
    THEN [p EXCEPT !.portrait = Portrait(w), !.calibrationFlag = TRUE]
    ELSE p

\* a capture that leaves the flag set, which C3 must reject
SetCalibrationRotation_KeepsFlag(p, x, y, z) ==
  IF p.calibrationFlag THEN [p EXCEPT !.cx = x, !.cy = y, !.cz = z] ELSE p

\* Set Calibration Rotation
SetCalibrationRotation(p, x, y, z) ==
  IF p.calibrationFlag
    THEN [p EXCEPT !.calibrationFlag = FALSE, !.cx = x, !.cy = y, !.cz = z]
    ELSE p

\* Set Rotation
SetRotation(p, x, y, z) == [p EXCEPT !.rx = x, !.ry = y, !.rz = z]

onDeviceOrientation(p, event, w) ==
  LET x == Or(event.beta, Num(0)).n
      y == Or(event.gamma, Num(0)).n
      z == Or(event.alpha, Num(0)).n
  IN  SetRotation(SetCalibrationRotation(DetectOrientationChange(p, w), x, y, z), x, y, z)

\* the timeout callback of calibrate
calibrationTimeout(p) == [p EXCEPT !.calibrationFlag = TRUE]

\* Cache Depths
CacheDepths(layers) == [i \in 1..Len(layers) |-> Or(layers[i], Num(0)).n]

\* a constructor that leaves the calibration flag unset, which C18 must reject
Plugin_FlagUnset(element, options, w) ==
  LET p == Settings(element, options) @@
           [ layers           |-> element.layers,
             calibrationTimer |-> Null,
             calibrationFlag  |-> FALSE,
             depths           |-> CacheDepths(element.layers),
             raf              |-> Null,
             cx |-> 0, cy |-> 0, cz |-> 0,
             rx |-> 0, ry |-> 0, rz |-> 0,
             ox |-> 0, oy |-> 0,
             portrait         |-> PrototypePortrait ]
      s == enable([plugin |-> p, window |-> w, commands |-> <<>>])
  IN  calibrate(s, s.plugin.calibrationDelay.n)

\* new Plugin(element, options), initialise() included, in a window w
Plugin(element, options, w) ==
  LET p == Settings(element, options) @@
           [ layers           |-> element.layers,
             calibrationTimer |-> Null,
             calibrationFlag  |-> TRUE,
             depths           |-> CacheDepths(element.layers),
             raf              |-> Null,
             cx |-> 0, cy |-> 0, cz |-> 0,
             rx |-> 0, ry |-> 0, rz |-> 0,
             ox |-> 0, oy |-> 0,
             portrait         |-> PrototypePortrait ]
      s == enable([plugin |-> p, window |-> w, commands |-> <<>>])
  IN  calibrate(s, s.plugin.calibrationDelay.n)

-----------------------------------------------------------------------------
(* The inputs: the page (container element and constructor options), the   *)
(* viewports, the deviceorientation events and the setter arguments.       *)

\* element: the data-* attributes of the container as $.fn.data reads them
\* and the data-depth attribute of each .layer child, in document order;
\* options: the argument of the constructor
Pages ==
  { [ element |-> [data |-> <<>>, layers |-> <<Undefined, Num(1)>>],
      options |-> <<>> ],
    [ element |-> [ data   |-> [k \in {"limit-x"} |-> Num(4)],
                    layers |-> <<Num(2), Num(0), Num(1)>> ],
      options |-> [k \in {"calibrationThreshold"} |-> Num(200)] ] }

\* the containers of the pages that call $.fn.parallax themselves: one
\* layer, and a data-limit-x that is absent, 2 (4 halves), 0 or not a number
\* (parseFloat gives NaN)
Elements ==
  { [data |-> [k \in {"limit-x"} |-> v], layers |-> <<Num(1)>>] :
      v \in {Undefined, Num(4), Num(0), NaN} }

\* the options objects these pages pass; a key that is undefined is not given
OptionSets ==
  { [limitX |-> Undefined, scalarX |-> Undefined],
    [limitX |-> Num(2), scalarX |-> Undefined],
    [limitX |-> Undefined, scalarX |-> Num(2)] }

\* the options a call with a method name gives the constructor: no setting
NoOptions == [limitX |-> Undefined, scalarX |-> Undefined]

\* <<innerWidth, innerHeight>>
Viewports == { <<320, 480>>, <<480, 320>>, <<400, 400>> }

\* the viewport in which the page is loaded
InitialViewport == <<320, 480>>

\* <<clientX, clientY>> of the pointer, as the mousemove events report it
Pointers == { <<0, 0>>, <<100, 50>>, <<300, 400>> }

\* where the pointer is when the page is loaded
PointerOrigin == <<0, 0>>

\* beta, gamma, alpha; a field the device does not report is undefined
Events ==
  { [beta |-> Num(10), gamma |-> Num(20), alpha |-> Undefined],
    [beta |-> Num(15), gamma |-> Num(-170), alpha |-> Num(30)] }

\* the arguments <<x, y>> of the setter calls
InvertArgs == { <<Bool(FALSE), Undefined>>, <<Undefined, Bool(FALSE)>> }
ScalarArgs == { <<Num(0), Undefined>>, <<Num(2), Num(0)>> }
LimitArgs  == { <<Num(2), Undefined>>, <<Undefined, Num(0)>>, <<Num(-2), Num(3)>> }

\* the rotation onDeviceOrientation extracts from an event
Rotation(event) ==
  [ x |-> Or(event.beta, Num(0)).n,
    y |-> Or(event.gamma, Num(0)).n,
    z |-> Or(event.alpha, Num(0)).n ]

-----------------------------------------------------------------------------
(* The state machine.                                                      *)

World == [plugin |-> plugin, window |-> window, commands |-> commands]

Becomes(s) ==
  /\ plugin' = s.plugin
  /\ window' = s.window
  /\ commands' = s.commands

\* the window in which the page is loaded: no handler attached, no frame
\* requested, no timer armed, the pointer at its origin
LoadedWindow ==
  [ innerWidth |-> InitialViewport[1],
    innerHeight |-> InitialViewport[2],
    pointer |-> PointerOrigin,
    handlers |-> 0, frames |-> {}, timers |-> {} ]

\* the methods $.fn.parallax dispatches to
API == { "enable", "disable", "invert", "scalar", "limit" }

\* plugin[value].apply(plugin, args)
Apply(value, s, args) ==
  CASE value = "enable"  -> enable(s)
    [] value = "disable" -> disable(s)
    [] value = "invert"  -> [s EXCEPT !.plugin = invert(@, args[1], args[2])]
    [] value = "scalar"  -> [s EXCEPT !.plugin = scalar(@, args[1], args[2])]
    [] value = "limit"   -> [s EXCEPT !.plugin = limit(@, args[1], args[2])]

\* the container of a page that has made no call yet
Untouched(element) ==
  [ element |-> element, options |-> <<>>, stored |-> FALSE, instances |-> 0,
    value |-> "", args |-> <<>> ]

\* the container once $.fn.parallax(options) has constructed its instance
Constructed(element, options) ==
  [ element |-> element, options |-> options, stored |-> TRUE, instances |-> 1,
    value |-> "", args |-> <<>> ]

\* an entry point that constructs an instance at every call, which C20 must
\* reject
parallax_AlwaysConstructs(c, s, options, value, args) ==
  LET s1 == Plugin(c.element, options, s.window)
      c1 == [c EXCEPT !.stored = TRUE, !.instances = @ + 1, !.options = options]
      s2 == IF value \in API THEN Apply(value, s1, args) ELSE s1
  IN  [ container |-> [c1 EXCEPT !.value = value, !.args = args], world |-> s2 ]

\* the body of $.fn.parallax for the container c in the world s.  The first
\* argument is an options object (value is then "", no key of API) or a
\* string (options is then the empty object: $.extend copies no setting
\* from a string).
parallax(c, s, options, value, args) ==
  LET s1 == IF ~c.stored THEN Plugin(c.element, options, s.window) ELSE s
      c1 == IF ~c.stored
              THEN [c EXCEPT !.stored = TRUE, !.instances = @ + 1, !.options = options]
              ELSE c
      s2 == IF value \in API THEN Apply(value, s1, args) ELSE s1
  IN  [ container |-> [c1 EXCEPT !.value = value, !.args = args], world |-> s2 ]

InitOf(pages) ==
  \E page \in pages :
    LET s == Plugin(page.element, page.options, LoadedWindow)
    IN  /\ plugin = s.plugin
        /\ window = s.window
        /\ commands = s.commands
        /\ running = TRUE
        /\ calls = 0
        /\ last = "other"
        /\ container = Constructed(page.element, page.options)
        /\ peer = {}

Init == InitOf(Pages)

\* a page whose script has not called $.fn.parallax yet
Unconstructed ==
  \E element \in Elements :
    /\ plugin = Undefined
    /\ window = LoadedWindow
    /\ commands = <<>>
    /\ running = FALSE
    /\ calls = 0
    /\ last = "other"
    /\ container = Untouched(element)
    /\ peer = {}

\* a call of the API method enable
Enable ==
  /\ window.handlers < MaxPending
  /\ Cardinality(window.frames) < MaxPending
  /\ Becomes(enable(World))
  /\ running' = TRUE
  /\ UNCHANGED calls
  /\ last' = "other"
  /\ UNCHANGED <<container, peer>>

\* what off('deviceorientation', this.onDeviceOrientation) leaves of the
\* world q of another instance.  $.proxy gives every proxy of a function the
\* guid of that function, and off removes the handlers whose guid is that of
\* the function it is given: the proxies of Plugin.prototype.onDeviceOrientation
\* that the other instances attached are removed with this instance's own.
Detached(q) == [q EXCEPT !.window.handlers = 0]

\* a call of the API method disable
Disable ==
  /\ Becomes(disable(World))
  /\ running' = FALSE
  /\ UNCHANGED calls
  /\ last' = "other"
  /\ peer' = { Detached(q) : q \in peer }
  /\ UNCHANGED container

Invert ==
  /\ calls < MaxSetterCalls
  /\ \E a \in InvertArgs : plugin' = invert(plugin, a[1], a[2])
  /\ calls' = calls + 1
  /\ UNCHANGED <<window, commands, running>>
  /\ last' = "other"
  /\ UNCHANGED <<container, peer>>

Scalar ==
  /\ calls < MaxSetterCalls
  /\ \E a \in ScalarArgs : plugin' = scalar(plugin, a[1], a[2])
  /\ calls' = calls + 1
  /\ UNCHANGED <<window, commands, running>>
  /\ last' = "other"
  /\ UNCHANGED <<container, peer>>

Limit ==
  /\ calls < MaxSetterCalls
  /\ \E a \in LimitArgs : plugin' = limit(plugin, a[1], a[2])
  /\ calls' = calls + 1
  /\ UNCHANGED <<window, commands, running>>
  /\ last' = "other"
  /\ UNCHANGED <<container, peer>>

\* the browser runs one pending animation-frame callback
AnimationFrame ==
  /\ \E id \in window.frames : Becomes(onAnimationFrame(World, id))
  /\ UNCHANGED <<running, calls>>
  /\ last' = "frame"
  /\ UNCHANGED <<container, peer>>

\* the handlers attached to the window, run one after the other on one event
RECURSIVE Dispatch(_, _, _, _)
Dispatch(p, event, w, n) ==
  IF n = 0 THEN p ELSE Dispatch(onDeviceOrientation(p, event, w), event, w, n - 1)

\* the number of those runs that enter the Set Calibration Rotation block
RECURSIVE Captures(_, _, _, _)
Captures(p, event, w, n) ==
  IF n = 0
    THEN 0
    ELSE (IF DetectOrientationChange(p, w).calibrationFlag THEN 1 ELSE 0)
           + Captures(onDeviceOrientation(p, event, w), event, w, n - 1)

\* what the event leaves of the world q of another instance, whose handlers
\* are attached to the same window
Received(q, event) ==
  [q EXCEPT !.plugin = Dispatch(@, event, q.window, q.window.handlers)]

\* the window receives a deviceorientation event while handlers are attached
DeviceOrientation ==
  /\ window.handlers > 0 \/ \E q \in peer : q.window.handlers > 0
  /\ \E event \in Events :
       /\ plugin' = Dispatch(plugin, event, window, window.handlers)
       /\ peer' = { Received(q, event) : q \in peer }
  /\ UNCHANGED <<window, commands, running, calls, container>>
  /\ last' = "sample"

\* a pending calibration timer expires
CalibrationTimeout ==
  /\ \E t \in window.timers : window' = [window EXCEPT !.timers = @ \ {t}]
  /\ plugin' = calibrationTimeout(plugin)
  /\ UNCHANGED <<commands, running, calls>>
  /\ last' = "other"
  /\ UNCHANGED <<container, peer>>

\* the viewport changes (the device is turned, the window resized)
Resize ==
  /\ \E viewport \in Viewports :
       /\ <<window.innerWidth, window.innerHeight>> # viewport
       /\ window' = [window EXCEPT !.innerWidth = viewport[1],
                                   !.innerHeight = viewport[2]]
       /\ peer' = { [q EXCEPT !.window.innerWidth = viewport[1],
                              !.window.innerHeight = viewport[2]] : q \in peer }
  /\ UNCHANGED <<plugin, commands, running, calls, container>>
  /\ last' = "other"

\* the arguments a call of $.fn.parallax passes after a method name
ArgsOf(value) ==
  CASE value = "invert" -> InvertArgs
    [] value = "scalar" -> ScalarArgs
    [] value = "limit"  -> LimitArgs
    [] OTHER            -> { <<>> }

\* $(container).parallax(options)
ParallaxOptions ==
  /\ \E options \in OptionSets :
       LET r == parallax(container, World, options, "", <<>>)
       IN  Becomes(r.world) /\ container' = r.container
  /\ running' = (~container.stored \/ running)
  /\ UNCHANGED <<calls, peer>>
  /\ last' = "call"

\* $(container).parallax(value, x, y), value the name of an API method
ParallaxMethod ==
  /\ \E value \in API : \E args \in ArgsOf(value) :
       LET r == parallax(container, World, NoOptions, value, args)
       IN  /\ value \in {"invert", "scalar", "limit"} => calls < MaxSetterCalls
           /\ r.world.window.handlers <= MaxPending
           /\ Cardinality(r.world.window.frames) <= MaxPending
           /\ Becomes(r.world)
           /\ container' = r.container
           /\ running' = (CASE value = "enable"  -> TRUE
                            [] value = "disable" -> FALSE
                            [] OTHER             -> (~container.stored \/ running))
           /\ calls' = calls + (IF value \in {"invert", "scalar", "limit"} THEN 1 ELSE 0)
           /\ peer' = IF value = "disable" THEN { Detached(q) : q \in peer } ELSE peer
  /\ last' = "call"

\* The page calls $.fn.parallax itself; samples arrive and timers expire.
EntryNext ==
  \/ ParallaxOptions
  \/ ParallaxMethod
  \/ DeviceOrientation
  \/ CalibrationTimeout

EntrySpec == Unconstructed /\ [][EntryNext]_vars

\* the pointer moves: the window dispatches a mousemove event.  enable()
\* attaches handlers for deviceorientation only, so that no code of the
\* plugin runs.
MouseMove ==
  /\ \E pointer \in Pointers :
       /\ pointer # window.pointer
       /\ window' = [window EXCEPT !.pointer = pointer]
  /\ UNCHANGED <<plugin, commands, running, calls, container, peer>>
  /\ last' = "other"

\* A device without a gyroscope: no deviceorientation event is dispatched,
\* the pointer moves.
PointerNext ==
  \/ Enable
  \/ Disable
  \/ AnimationFrame
  \/ CalibrationTimeout
  \/ Resize
  \/ MouseMove

PointerSpec == Init /\ [][PointerNext]_vars

\* a page with two containers, an instance constructed for each.  The
\* window of the other instance's world holds what that instance has
\* attached, requested and armed.
TwoInstances ==
  \E page \in Pages : \E other \in Pages :
    LET s == Plugin(page.element, page.options, LoadedWindow)
    IN  /\ plugin = s.plugin
        /\ window = s.window
        /\ commands = s.commands
        /\ running = TRUE
        /\ calls = 0
        /\ last = "other"
        /\ container = Constructed(page.element, page.options)
        /\ peer = { Plugin(other.element, other.options, LoadedWindow) }

\* a call of enable on the other instance
PeerEnable ==
  /\ \E q \in peer :
       /\ q.window.handlers < MaxPending
       /\ Cardinality(q.window.frames) < MaxPending
       /\ peer' = { enable(q) }
  /\ UNCHANGED <<plugin, window, commands, running, calls, container>>
  /\ last' = "other"

\* a call of disable on the other instance
PeerDisable ==
  /\ \E q \in peer : peer' = { disable(q) }
  /\ Becomes(Detached(World))
  /\ UNCHANGED <<running, calls, container>>
  /\ last' = "other"

PairNext ==
  \/ Enable
  \/ Disable
  \/ PeerEnable
  \/ PeerDisable
  \/ DeviceOrientation

PairSpec == TwoInstances /\ [][PairNext]_vars

Next ==
  \/ Enable
  \/ Disable
  \/ Invert
  \/ Scalar
  \/ Limit
  \/ AnimationFrame
  \/ DeviceOrientation
  \/ CalibrationTimeout
  \/ Resize

Spec == Init /\ [][Next]_vars

\* The steps the calibration path interleaves with.  The setters are left
\* out: they write invertX, invertY, scalarX, scalarY, limitX and limitY
\* only, which the threshold test, calibrate, the timeout callback and
\* onDeviceOrientation never read.
LiveNext ==
  \/ Enable
  \/ Disable
  \/ AnimationFrame
  \/ DeviceOrientation
  \/ CalibrationTimeout
  \/ Resize

\* a pending timeout is run by the browser unless it is cleared; a handler
\* that clears it arms another, so that some timeout stays pending until one
\* is run
LiveSpec == Init /\ [][LiveNext]_vars /\ WF_vars(CalibrationTimeout)

-----------------------------------------------------------------------------
(* Shorthands of the properties.                                           *)

Bias(p)     == [x |-> p.cx, y |-> p.cy, z |-> p.cz]
Sample(p)   == [x |-> p.rx, y |-> p.ry, z |-> p.rz]
IsSet(lim)  == lim.t = "number"

\* the offsets the specification gives for the fields of p, before clamping
SpecRawX(p) == IF p.portrait THEN (p.ry - p.cy) * p.scalarX.n
                             ELSE (p.rx - p.cx) * p.scalarX.n
SpecRawY(p) == IF p.portrait THEN (p.rx - p.cx) * p.scalarY.n
                             ELSE (p.ry - p.cy) * p.scalarY.n

-----------------------------------------------------------------------------
(* C1.  After every frame tick the stored offset is the axis-remapped,     *)
(* scaled deviation of the rotation from the bias: in Portrait mode        *)
(* ox = dy * scalarX and oy = dx * scalarY, in Landscape mode              *)
(* ox = dx * scalarX and oy = dy * scalarY, on every axis whose limit is   *)
(* unset.                                                                  *)
C1_OffsetIsRemappedScaledDeviation ==
  last = "frame" =>
    /\ ~IsSet(plugin.limitX) => plugin.ox = SpecRawX(plugin)
    /\ ~IsSet(plugin.limitY) => plugin.oy = SpecRawY(plugin)

\* Portrait, bias (10,20), sample (15,-170), scalars 0.5, no limits: the tick
\* has stored (dy * 0.5, dx * 0.5) = (-95, 2.5), in halves (-190, 5)
C1_Witness ==
  /\ last = "frame"
  /\ plugin.portrait
  /\ plugin.cx = 10 /\ plugin.cy = 20
  /\ plugin.rx = 15 /\ plugin.ry = -170
  /\ plugin.scalarX = Num(1) /\ plugin.scalarY = Num(1)
  /\ ~IsSet(plugin.limitX) /\ ~IsSet(plugin.limitY)
  /\ plugin.ox = -190 /\ plugin.oy = 5

-----------------------------------------------------------------------------
(* C2.  A frame tick with limitX set to L >= 0 leaves -L <= ox <= L, so    *)
(* L = 0 leaves ox = 0; with limitX unset it leaves the unclamped offset.  *)
(* The same holds of oy and limitY.                                        *)
C2_OffsetWithinLimit ==
  last = "frame" =>
    /\ (IsSet(plugin.limitX) /\ plugin.limitX.n >= 0) =>
         /\ -plugin.limitX.n <= plugin.ox
         /\ plugin.ox <= plugin.limitX.n
    /\ (IsSet(plugin.limitY) /\ plugin.limitY.n >= 0) =>
         /\ -plugin.limitY.n <= plugin.oy
         /\ plugin.oy <= plugin.limitY.n
    /\ plugin.limitX = Num(0) => plugin.ox = 0
    /\ plugin.limitY = Num(0) => plugin.oy = 0
    /\ ~IsSet(plugin.limitX) => plugin.ox = SpecRawX(plugin)
    /\ ~IsSet(plugin.limitY) => plugin.oy = SpecRawY(plugin)

\* limitX = 1 (2 halves) and a raw offset below -1: the tick has stored -1
C2_Witness ==
  /\ last = "frame"
  /\ plugin.limitX = Num(2)
  /\ SpecRawX(plugin) < -2
  /\ plugin.ox = -2
  /\ ~IsSet(plugin.limitY)
  /\ plugin.oy = SpecRawY(plugin) /\ plugin.oy # 0

-----------------------------------------------------------------------------
(* C3.  The bias (cx, cy, cz) changes only in a sample-handling step in    *)
(* which the calibration flag is set when the handler tests it (set        *)
(* before the step, or by the step's own detection of a mode change); the  *)
(* new bias is the sample handled in that step and the flag is false       *)
(* after it.  A sample-handling step that finds the flag unset leaves the  *)
(* bias unchanged.                                                         *)
FlagWhenTested ==
  \/ plugin.calibrationFlag
  \/ plugin.portrait # (window.innerHeight > window.innerWidth)

C3_BiasCapturedOnlyUnderFlag ==
  [][ /\ Bias(plugin') # Bias(plugin) => (last' = "sample" /\ FlagWhenTested)
      /\ (last' = "sample" /\ FlagWhenTested) =>
           /\ Bias(plugin') = Sample(plugin')
           /\ Sample(plugin') \in {Rotation(event) : event \in Events}
           /\ ~plugin'.calibrationFlag
      /\ (last' = "sample" /\ ~FlagWhenTested) =>
           /\ Bias(plugin') = Bias(plugin)
           /\ ~plugin'.calibrationFlag ]_vars

\* the calibration timer has expired and a later sample (15,-170,30) has
\* been captured as the bias
C3_Witness ==
  /\ last = "sample"
  /\ window.timers = {}
  /\ ~plugin.calibrationFlag
  /\ Bias(plugin) = [x |-> 15, y |-> -170, z |-> 30]
  /\ Sample(plugin) = Bias(plugin)

-----------------------------------------------------------------------------
(* C4.  After disable() no frame tick runs and no sample is handled until  *)
(* the next enable(): no state in which the last of the enable/disable     *)
(* calls was disable() is reached by a frame tick or a sample.             *)
C4_NothingRunsWhileDisabled ==
  ~running => last \notin {"frame", "sample"}

-----------------------------------------------------------------------------
(* C5.  enable() on a Running instance is a no-op: it leaves the number    *)
(* of attached handlers and of pending frame ticks as they were.           *)
C5_EnableWhileRunningIsNoOp ==
  [][ (Enable /\ running) =>
        /\ window'.handlers = window.handlers
        /\ Cardinality(window'.frames) = Cardinality(window.frames) ]_vars

-----------------------------------------------------------------------------
(* C6.  A step that changes the orientation mode is a sample-handling      *)
(* step in which exactly one handler run captures the bias; the bias it    *)
(* leaves is the sample of that step and the flag is cleared, so no later  *)
(* sample is captured on account of the change.                            *)
C6_ModeChangeRecalibratesOnce ==
  [][ plugin'.portrait # plugin.portrait =>
        /\ last' = "sample"
        /\ Bias(plugin') = Sample(plugin')
        /\ ~plugin'.calibrationFlag
        /\ \A event \in Events :
             Sample(plugin') = Rotation(event) =>
               Captures(plugin, event, window, window.handlers) = 1 ]_vars

\* oy = 2.5 was stored by a tick in Portrait mode under the bias (10,20);
\* the initial timer is still pending, so no timer has set the flag; the
\* mode is now Landscape and the bias is the sample (15,-170,30) just handled
C6_Witness ==
  /\ last = "sample"
  /\ ~plugin.portrait
  /\ window.timers = {[id |-> 0, delay |-> 500]}
  /\ plugin.calibrationThreshold = Num(200)
  /\ plugin.oy = 5
  /\ ~plugin.calibrationFlag
  /\ Bias(plugin) = [x |-> 15, y |-> -170, z |-> 30]
  /\ Sample(plugin) = Bias(plugin)

-----------------------------------------------------------------------------
(* C7.  As claimed: after a sample is processed the mode is Landscape if   *)
(* width > height and Portrait otherwise, a square viewport included.      *)
C7_SquareIsPortrait ==
  last = "sample" => plugin.portrait = ~(window.innerWidth > window.innerHeight)

(* C7, amended.  After a sample is processed the mode is Portrait if       *)
(* height > width and Landscape otherwise, a square viewport included.     *)
C7_PortraitIffTaller ==
  last = "sample" => plugin.portrait = (window.innerHeight > window.innerWidth)

\* a sample has been processed in a square viewport: the mode is Landscape
C7_Witness ==
  /\ last = "sample"
  /\ window.innerWidth = window.innerHeight
  /\ ~plugin.portrait

-----------------------------------------------------------------------------
(* C9.  At every moment at most one calibration timer is pending, and it   *)
(* is the one calibrationTimer names (the last one armed); and a timer     *)
(* sets the flag at most once: every step that sets the flag consumes the  *)
(* one pending timer and leaves none.                                      *)
C9_OneCalibrationTimer ==
  /\ [](/\ Cardinality(window.timers) <= 1
        /\ \A t \in window.timers : plugin.calibrationTimer = Num(t.id))
  /\ [][ (~plugin.calibrationFlag /\ plugin'.calibrationFlag) =>
           /\ Cardinality(window.timers) = 1
           /\ window'.timers = {} ]_vars

\* a frame tick has re-armed the timer with delay 0 in place of the initial
\* one: it is the only pending timer
C9_Witness ==
  /\ last = "frame"
  /\ window.timers = {[id |-> 0, delay |-> 0]}
  /\ plugin.calibrationTimer = Num(0)
  /\ plugin.calibrationDelay = Num(500)

-----------------------------------------------------------------------------
(* C10.  A frame tick issues exactly one positioning command per layer,    *)
(* in layer order; depths has one entry per layer, the entry of layer i    *)
(* being its data-depth (0 when it has none) and the depth the i-th        *)
(* command is scaled by; a layer of depth 0 receives (0,0) whatever the    *)
(* offset is.                                                              *)
C10_OneCommandPerLayerInOrder ==
  /\ Len(plugin.depths) = Len(plugin.layers)
  /\ \A i \in 1..Len(plugin.layers) :
       plugin.depths[i] = (IF plugin.layers[i].t = "number" THEN plugin.layers[i].n ELSE 0)
  /\ last = "frame" =>
       /\ Len(commands) = Len(plugin.layers)
       /\ \A i \in 1..Len(commands) :
            /\ commands[i].element = i
            /\ Abs(commands[i].x) = Abs(plugin.ox) * plugin.depths[i]
            /\ Abs(commands[i].y) = Abs(plugin.oy) * plugin.depths[i]
            /\ plugin.depths[i] = 0 => (commands[i].x = 0 /\ commands[i].y = 0)

\* three layers of depths 2, 0, 1 under a non-zero offset: the second has
\* received (0,0), the others have been moved
C10_Witness ==
  /\ last = "frame"
  /\ plugin.depths = <<2, 0, 1>>
  /\ plugin.ox # 0 /\ plugin.oy # 0
  /\ Len(commands) = 3
  /\ commands[2] = [element |-> 2, x |-> 0, y |-> 0]
  /\ commands[1].x # 0 /\ commands[3].y # 0

-----------------------------------------------------------------------------
(* C11.  After every frame tick the command of a layer of depth d is       *)
(* (ox * d * (-1 if invertX, else 1), oy * d * (-1 if invertY, else 1)):   *)
(* linear in d, and with invertX toggled the same offset gives every layer *)
(* the negated x and the same y.                                           *)
C11_CommandIsSignedOffsetTimesDepth ==
  last = "frame" =>
    LET toggled == LayerCommands(invert(plugin, Bool(plugin.invertX # Bool(TRUE)), Undefined))
    IN  \A i \in 1..Len(commands) :
          LET d == plugin.depths[i]
          IN  /\ commands[i].x = plugin.ox * d * (IF plugin.invertX = Bool(TRUE) THEN -1 ELSE 1)
              /\ commands[i].y = plugin.oy * d * (IF plugin.invertY = Bool(TRUE) THEN -1 ELSE 1)
              /\ toggled[i].x = -commands[i].x
              /\ toggled[i].y = commands[i].y

\* invertX switched off, invertY on, offset (-95, 2.5): the layer of depth 1
\* has received (-95, -2.5), x as it is and y negated
C11_Witness ==
  /\ last = "frame"
  /\ plugin.invertX = Bool(FALSE) /\ plugin.invertY = Bool(TRUE)
  /\ plugin.depths = <<0, 1>>
  /\ plugin.ox = -190 /\ plugin.oy = 5
  /\ commands[2] = [element |-> 2, x |-> -190, y |-> -5]

-----------------------------------------------------------------------------
(* C12.  A frame tick that runs while the rotation equals the bias on the  *)
(* x and y axes (rx = cx and ry = cy) leaves the offset (0,0), whatever    *)
(* the mode, the scalars and the limits that the limit() calls made so far *)
(* have left are.                                                          *)
C12_NoDeviationGivesZeroOffset ==
  (last = "frame" /\ plugin.rx = plugin.cx /\ plugin.ry = plugin.cy) =>
    (plugin.ox = 0 /\ plugin.oy = 0)

-----------------------------------------------------------------------------
(* C13.  A call of invert, scalar or limit sets the settings of its own    *)
(* pair on the axes it is given and keeps the value of an omitted axis;    *)
(* the other two pairs, the rotation, the bias, the flag, the mode, the    *)
(* running state, the window and the commands are as they were; and a      *)
(* second call with the same arguments leaves what the first has left.     *)
Setters ==
  { <<"invertX", "invertY", InvertArgs>>,
    <<"scalarX", "scalarY", ScalarArgs>>,
    <<"limitX", "limitY", LimitArgs>> }

Given(a, old) == IF a = Undefined THEN old ELSE a

C13_SetterSetsOnlyGivenAxes ==
  /\ [][ calls' # calls =>
          /\ \E setter \in Setters : \E a \in setter[3] :
               plugin' = [plugin EXCEPT ![setter[1]] = Given(a[1], @),
                                        ![setter[2]] = Given(a[2], @)]
          /\ window' = window
          /\ commands' = commands
          /\ running' = running ]_vars
  /\ [](/\ \A a \in InvertArgs :
             invert(invert(plugin, a[1], a[2]), a[1], a[2]) = invert(plugin, a[1], a[2])
        /\ \A a \in ScalarArgs :
             scalar(scalar(plugin, a[1], a[2]), a[1], a[2]) = scalar(plugin, a[1], a[2])
        /\ \A a \in LimitArgs :
             limit(limit(plugin, a[1], a[2]), a[1], a[2]) = limit(plugin, a[1], a[2]))

\* limit(undefined, 0) has been called on the instance whose data-limit-x is
\* 4: limitY is 0 and limitX is still 4
C13_Witness ==
  /\ calls = 1
  /\ last = "other"
  /\ plugin.limitX = Num(4)
  /\ plugin.limitY = Num(0)
  /\ plugin.invertX = Bool(TRUE) /\ plugin.scalarX = Num(1)

-----------------------------------------------------------------------------
(* C14.  The instance $.fn.parallax constructs holds, for every setting,   *)
(* the explicit option if one is given, else the data attribute if its     *)
(* (parsed) value is truthy, else the default: an option wins over an      *)
(* attribute, and a falsy or NaN attribute counts as absent.               *)
AttributeOf ==
  [ invertX |-> "invert-x", invertY |-> "invert-y",
    limitX  |-> "limit-x",  limitY  |-> "limit-y",
    scalarX |-> "scalar-x", scalarY |-> "scalar-y" ]

OptionGiven(key) ==
  IF key \in DOMAIN container.options THEN container.options[key] ELSE Undefined

AttributeGiven(key) ==
  IF key \notin DOMAIN AttributeOf
    THEN Undefined
    ELSE LET v == Attr(container.element, AttributeOf[key])
         IN  IF key \in {"invertX", "invertY"} THEN v ELSE parseFloat(v)

C14_ExplicitOptionWins ==
  (container.stored /\ calls = 0) =>
    \A key \in DOMAIN DEFAULTS :
      plugin[key] = IF OptionGiven(key) # Undefined THEN OptionGiven(key)
                    ELSE IF Truthy(AttributeGiven(key)) THEN AttributeGiven(key)
                    ELSE DEFAULTS[key]

-----------------------------------------------------------------------------
(* C15.  On a device that delivers no tilt data the pointer position is    *)
(* the input: a movement of the pointer while the instance is running      *)
(* produces a rotation sample, so that the rotation the later frame ticks  *)
(* read is another than before the movement.                               *)
C15_PointerMovementGivesSample ==
  [][ (running /\ window'.pointer # window.pointer) =>
        Sample(plugin') # Sample(plugin) ]_vars

-----------------------------------------------------------------------------
(* C16.  The instances of a page are independent: a call of enable,        *)
(* disable or a setter on one instance, a frame tick or a timer expiry of  *)
(* one instance leaves the other instance as it is, with the handlers it   *)
(* has attached and the frames it has requested.                           *)
C16_InstancesIndependent ==
  /\ [][ (Enable \/ Disable \/ Invert \/ Scalar \/ Limit
            \/ AnimationFrame \/ CalibrationTimeout) => peer' = peer ]_vars
  /\ [][ (PeerEnable \/ PeerDisable) =>
          (plugin' = plugin /\ window' = window /\ commands' = commands) ]_vars

-----------------------------------------------------------------------------
(* C17.  In every reachable state limitX and limitY are each unset or a    *)
(* number that is not negative.                                            *)
C17_LimitsUnsetOrNonNegative ==
  /\ IsSet(plugin.limitX) => plugin.limitX.n >= 0
  /\ IsSet(plugin.limitY) => plugin.limitY.n >= 0

-----------------------------------------------------------------------------
(* C18.  The flag is set at construction: until the first sample is        *)
(* handled the flag is set and rotation and bias are (0,0,0), and a frame  *)
(* tick then leaves the offset (0,0) if each limit is unset or not         *)
(* negative; the first sample handled is captured as the bias, whether or  *)
(* not the calibrationDelay timer has expired; and after every step that   *)
(* captures, the bias is the current rotation.                             *)

\* every event of Events reports a beta that is not 0, so that the rotation
\* is (0,0,0) until the first sample is handled and never again
NoSampleYet == Sample(plugin) = [x |-> 0, y |-> 0, z |-> 0]

C18_FirstSampleIsCaptured ==
  /\ [](NoSampleYet =>
          /\ plugin.calibrationFlag
          /\ Bias(plugin) = [x |-> 0, y |-> 0, z |-> 0])
  /\ []((/\ NoSampleYet
         /\ last = "frame"
         /\ IsSet(plugin.limitX) => plugin.limitX.n >= 0
         /\ IsSet(plugin.limitY) => plugin.limitY.n >= 0) =>
          (plugin.ox = 0 /\ plugin.oy = 0))
  /\ [][ /\ (last' = "sample" /\ NoSampleYet) =>
              /\ ~NoSampleYet'
              /\ Bias(plugin') = Sample(plugin')
              /\ ~plugin'.calibrationFlag
         /\ (last' = "sample" /\ FlagWhenTested) =>
              Bias(plugin') = Sample(plugin') ]_vars

\* the first sample (10,20) has been captured while the timer that the
\* constructor armed with calibrationDelay is still pending
C18_Witness ==
  /\ last = "sample"
  /\ Bias(plugin) = [x |-> 10, y |-> 20, z |-> 0]
  /\ Sample(plugin) = Bias(plugin)
  /\ ~plugin.calibrationFlag
  /\ window.timers = {[id |-> 0, delay |-> 500]}
  /\ plugin.ox = 0 /\ plugin.oy = 0 /\ commands = <<>>

-----------------------------------------------------------------------------
(* C19.  A call of disable() detaches the input handlers and cancels the   *)
(* frame request the instance holds, and changes nothing else: the fields  *)
(* of the instance (settings, rotation, bias, offset, mode, flag), the     *)
(* commands, the viewport and the pending calibration timer are as they    *)
(* were.  A timer that is pending while the instance is not running        *)
(* expires as any other: it sets the flag and changes nothing else; no     *)
(* sample is handled and the flag stays set until enable() is called, and  *)
(* a sample handled under a set flag is captured as the bias.              *)
C19_DisableLeavesCalibrationAlone ==
  /\ [][ Disable =>
          /\ plugin' = plugin
          /\ commands' = commands
          /\ window'.handlers = 0
          /\ window'.frames = window.frames \ {plugin.raf.n}
          /\ window' = [window EXCEPT !.handlers = 0, !.frames = window'.frames] ]_vars
  /\ [][ (~running /\ window'.timers # window.timers /\ window'.timers \subseteq window.timers) =>
          /\ plugin' = [plugin EXCEPT !.calibrationFlag = TRUE]
          /\ ~running' ]_vars
  /\ [](~running => window.handlers = 0)
  /\ [][ (~running /\ ~running' /\ plugin.calibrationFlag) => plugin'.calibrationFlag ]_vars
  /\ [][ (last' = "sample" /\ plugin.calibrationFlag) =>
          (Bias(plugin') = Sample(plugin') /\ ~plugin'.calibrationFlag) ]_vars

\* the first sample has been captured and the instance disabled: nothing is
\* attached, no frame is requested, and the timer the constructor armed is
\* still pending
C19_Witness ==
  /\ ~running
  /\ last = "other"
  /\ window.handlers = 0 /\ window.frames = {}
  /\ window.timers = {[id |-> 0, delay |-> 500]}
  /\ plugin.calibrationTimer = Num(0)
  /\ ~plugin.calibrationFlag
  /\ Bias(plugin) = [x |-> 10, y |-> 20, z |-> 0]

-----------------------------------------------------------------------------
(* C20.  Whatever calls of $.fn.parallax a page makes on its container     *)
(* (with options, with a method name and arguments), at most one instance  *)
(* is constructed for it and the data store holds it from the first call   *)
(* on.  The first call constructs the instance from the container and the  *)
(* options and starts it (one handler attached, one frame requested, the   *)
(* calibration timer armed); a later call constructs nothing and works on  *)
(* the instance as it is.  A call with the name of an API method leaves    *)
(* what one application of that method to the instance leaves, and a call  *)
(* without one leaves the instance as it is.                               *)
C20_OneInstancePerElement ==
  /\ [](/\ container.instances <= 1
        /\ container.stored <=> container.instances = 1)
  /\ [][ last' = "call" =>
          LET first == ~container.stored
              base  == IF first
                         THEN Plugin(container.element, container'.options, window)
                         ELSE World
              value == container'.value
              args  == container'.args
          IN  /\ container'.stored
              /\ container'.instances = 1
              /\ container'.element = container.element
              /\ first => /\ base.window.handlers = 1
                          /\ Cardinality(base.window.frames) = 1
                          /\ Cardinality(base.window.timers) = 1
              /\ ~first => container'.options = container.options
              /\ World' = (IF value \in API THEN Apply(value, base, args) ELSE base) ]_vars

\* the instance has captured the sample (10,20) as its bias; the call
\* parallax('limit', 1) that followed has set limitX on that instance
C20_Witness ==
  /\ last = "call"
  /\ container.instances = 1
  /\ container.value = "limit"
  /\ container.args = <<Num(2), Undefined>>
  /\ plugin.limitX = Num(2)
  /\ Bias(plugin) = [x |-> 10, y |-> 20, z |-> 0]
  /\ window.handlers = 1

-----------------------------------------------------------------------------
(* C8.  A frame tick in which |rx - cx| or |ry - cy| exceeds the           *)
(* threshold arms a zero-delay timer, which calibrationTimer then names;   *)
(* after such a tick the flag is eventually set, also when ticks keep      *)
(* re-arming the timer; and if samples keep being handled, a set flag      *)
(* leads to a sample being captured as the bias.                           *)
Deviates ==
  \/ Abs(plugin.rx - plugin.cx) > plugin.calibrationThreshold.n
  \/ Abs(plugin.ry - plugin.cy) > plugin.calibrationThreshold.n

ArmedByTick == last = "frame" /\ Deviates

Captured ==
  /\ last = "sample"
  /\ ~plugin.calibrationFlag
  /\ Bias(plugin) = Sample(plugin)

C8_DeviationLeadsToRecalibration ==
  /\ [][ (last' = "frame" /\ Deviates) =>
           \E t \in window'.timers :
             t.delay = 0 /\ plugin'.calibrationTimer = Num(t.id) ]_vars
  /\ ArmedByTick ~> plugin.calibrationFlag
  /\ []<><<DeviceOrientation>>_vars => (plugin.calibrationFlag ~> Captured)

\* a tick has run under the bias (10,20) and the rotation (15,-170): the y
\* deviation 190 exceeds the threshold 100 and a zero-delay timer is pending
C8_Witness ==
  /\ ArmedByTick
  /\ plugin.calibrationThreshold = Num(100)
  /\ plugin.cx = 10 /\ plugin.cy = 20
  /\ plugin.rx = 15 /\ plugin.ry = -170
  /\ ~plugin.calibrationFlag
  /\ window.timers = {[id |-> 0, delay |-> 0]}

====
